---------------------------- MODULE Spec2Model ----------------------------
(***************************************************************************)
(* Model of calculate_gwp_projection (src/GWP_projection.py, 112-222).     *)
(*                                                                         *)
(* The function works on Python floats, i.e. IEEE-754 binary64 numbers     *)
(* with round-to-nearest, ties-to-even arithmetic.  The model computes     *)
(* every product, sum, quotient and round(., 2) bit for bit, over the      *)
(* whole of binary64: normal and subnormal numbers, signed zeros, the      *)
(* infinities an overflow produces and the NaN of inf * 0 and inf - inf.   *)
(* A finite float is a sign, a mantissa of at most 53 bits and a binary    *)
(* exponent; the intermediate exact values are unbounded naturals kept as  *)
(* little-endian sequences of limbs.                                       *)
(***************************************************************************)
EXTENDS Integers, Sequences, FiniteSets, TLC

(***************************************************************************)
(* Unbounded naturals: little-endian limbs in 0..Base-1, no leading zero   *)
(* limb, zero is << >>.  The carries run through the two halves of a long  *)
(* number in turn, so the depth of evaluation stays small for the numbers  *)
(* of a thousand bits that the largest and smallest floats need.           *)
(***************************************************************************)
LimbBits == 15
Base == 2 ^ LimbBits

Zeros(n) == [i \in 1..n |-> 0]

Pad(a, n) == IF Len(a) >= n THEN a ELSE a \o Zeros(n - Len(a))

Top(S) == CHOOSE i \in S : \A j \in S : j <= i

Trim(a) ==
  IF a = << >> THEN a
  ELSE IF a[Len(a)] # 0 THEN a
  ELSE LET nz == {i \in 1..Len(a) : a[i] # 0}
       IN  IF nz = {} THEN << >> ELSE SubSeq(a, 1, Top(nz))

RECURSIVE BigOfNat(_)
BigOfNat(n) == IF n = 0 THEN << >> ELSE <<n % Base>> \o BigOfNat(n \div Base)

\* a run of at most Chunk limbs is worked through limb by limb, a longer
\* one in two halves
Chunk == 4

\* the limbs of a + b + c from limb i on, followed by the carry out
RECURSIVE AddFrom(_, _, _, _)
AddFrom(a, b, i, c) ==
  IF i > Len(a) THEN <<c>>
  ELSE LET s == a[i] + b[i] + c
       IN  <<s % Base>> \o AddFrom(a, b, i + 1, s \div Base)

\* the Len(a) limbs of a + b + c, followed by the carry out, for a and b of
\* one length
RECURSIVE AddLimbs(_, _, _)
AddLimbs(a, b, c) ==
  IF Len(a) <= Chunk THEN AddFrom(a, b, 1, c)
  ELSE LET h  == Len(a) \div 2
           lo == AddLimbs(SubSeq(a, 1, h), SubSeq(b, 1, h), c)
       IN  SubSeq(lo, 1, h)
             \o AddLimbs(SubSeq(a, h + 1, Len(a)), SubSeq(b, h + 1, Len(a)), lo[h + 1])

\* the limbs r without a top limb of zero
DropZeroTop(r) == IF r[Len(r)] = 0 THEN SubSeq(r, 1, Len(r) - 1) ELSE r

AddPadded(a, b, n) == DropZeroTop(AddLimbs(Pad(a, n), Pad(b, n), 0))

BigAdd(a, b) == AddPadded(a, b, IF Len(a) > Len(b) THEN Len(a) ELSE Len(b))

\* the limbs of a - b - c from limb i on, followed by the borrow out
RECURSIVE SubFrom(_, _, _, _)
SubFrom(a, b, i, c) ==
  IF i > Len(a) THEN <<c>>
  ELSE LET s == a[i] - b[i] - c
       IN  IF s < 0 THEN <<s + Base>> \o SubFrom(a, b, i + 1, 1)
           ELSE <<s>> \o SubFrom(a, b, i + 1, 0)

RECURSIVE SubLimbs(_, _, _)
SubLimbs(a, b, c) ==
  IF Len(a) <= Chunk THEN SubFrom(a, b, 1, c)
  ELSE LET h  == Len(a) \div 2
           lo == SubLimbs(SubSeq(a, 1, h), SubSeq(b, 1, h), c)
       IN  SubSeq(lo, 1, h)
             \o SubLimbs(SubSeq(a, h + 1, Len(a)), SubSeq(b, h + 1, Len(a)), lo[h + 1])

\* a - b for a >= b
BigSub(a, b) == Trim(SubSeq(SubLimbs(a, Pad(b, Len(a)), 0), 1, Len(a)))

\* -1, 0, 1 as a < b, a = b, a > b
BigCmp(a, b) ==
  IF Len(a) < Len(b) THEN -1
  ELSE IF Len(a) > Len(b) THEN 1
  ELSE IF a = b THEN 0
  ELSE IF a[Len(a)] # b[Len(a)] THEN (IF a[Len(a)] < b[Len(a)] THEN -1 ELSE 1)
  ELSE LET df == Top({i \in 1..Len(a) : a[i] # b[i]})
       IN  IF a[df] < b[df] THEN -1 ELSE 1

\* the limbs of a * k + c from limb i on, followed by the carry out
RECURSIVE MulSmallFrom(_, _, _, _)
MulSmallFrom(a, k, i, c) ==
  IF i > Len(a) THEN <<c>>
  ELSE LET s == a[i] * k + c
       IN  <<s % Base>> \o MulSmallFrom(a, k, i + 1, s \div Base)

RECURSIVE MulLimbs(_, _, _)
MulLimbs(a, k, c) ==
  IF Len(a) <= Chunk THEN MulSmallFrom(a, k, 1, c)
  ELSE LET h  == Len(a) \div 2
           lo == MulLimbs(SubSeq(a, 1, h), k, c)
       IN  SubSeq(lo, 1, h) \o MulLimbs(SubSeq(a, h + 1, Len(a)), k, lo[h + 1])

\* a * k for 0 <= k < Base
BigMulSmall(a, k) ==
  IF k = 0 \/ a = << >> THEN << >> ELSE DropZeroTop(MulLimbs(a, k, 0))

\* a times the limbs of b from limb j on, times Base^(j-1)
RECURSIVE MulFrom(_, _, _)
MulFrom(a, b, j) ==
  IF j > Len(b) THEN << >>
  ELSE BigAdd(IF b[j] = 0 THEN << >> ELSE Zeros(j - 1) \o BigMulSmall(a, b[j]),
              MulFrom(a, b, j + 1))

RECURSIVE MulBy(_, _)
MulBy(a, b) ==
  IF Len(b) <= Chunk THEN MulFrom(a, b, 1)
  ELSE LET h  == Len(b) \div 2
           hi == MulBy(a, SubSeq(b, h + 1, Len(b)))
       IN  BigAdd(MulBy(a, SubSeq(b, 1, h)),
                  IF hi = << >> THEN << >> ELSE Zeros(h) \o hi)

BigMul(a, b) == IF a = << >> \/ b = << >> THEN << >> ELSE MulBy(a, b)

\* the i limbs of the quotient of (r * Base^i + the low i limbs of a) by d,
\* top limb first, followed by the remainder
RECURSIVE DivSmallFrom(_, _, _, _)
DivSmallFrom(a, d, i, r) ==
  IF i = 0 THEN <<r>>
  ELSE LET t == r * Base + a[i]
       IN  <<t \div d>> \o DivSmallFrom(a, d, i - 1, t % d)

RECURSIVE DivLimbs(_, _, _)
DivLimbs(a, d, r) ==
  IF Len(a) <= Chunk THEN DivSmallFrom(a, d, Len(a), r)
  ELSE LET h  == Len(a) \div 2
           n  == Len(a) - h
           hi == DivLimbs(SubSeq(a, h + 1, Len(a)), d, r)
       IN  SubSeq(hi, 1, n) \o DivLimbs(SubSeq(a, 1, h), d, hi[n + 1])

\* the n limbs of a quotient, top limb first, as a number
Quotient(q, n) == Trim([i \in 1..n |-> q[n + 1 - i]])

QuotRem(qr, n) == <<Quotient(qr, n), qr[n + 1]>>

\* <<a \div d, a % d>> for 0 < d < Base
BigDivSmall(a, d) == QuotRem(DivLimbs(a, d, 0), Len(a))

RECURSIVE NatBits(_)
NatBits(n) == IF n = 0 THEN 0 ELSE 1 + NatBits(n \div 2)

BitLen(a) == IF a = << >> THEN 0 ELSE LimbBits * (Len(a) - 1) + NatBits(a[Len(a)])

\* a * 2^k
ShiftL(a, k) ==
  IF a = << >> THEN << >>
  ELSE Zeros(k \div LimbBits) \o BigMulSmall(a, 2 ^ (k % LimbBits))

\* a \div 2^k
ShiftR(a, k) ==
  LET q == k \div LimbBits
      r == k % LimbBits
  IN  IF q >= Len(a) THEN << >>
      ELSE BigDivSmall(SubSeq(a, q + 1, Len(a)), 2 ^ r)[1]

IsOdd(a) == a # << >> /\ a[1] % 2 = 1

\* <<q, r - q * t>> for the one bit q * 2^i of r \div t, t = d * 2^i
DivBit(r, t, i) ==
  IF BigCmp(r, t) >= 0 THEN <<ShiftL(<<1>>, i), BigSub(r, t)>> ELSE <<<< >>, r>>

\* <<q, r - q * d>> where q holds the bits i down to j of r \div d and
\* r < d * 2^(i+1)
RECURSIVE DivBits(_, _, _, _)
DivBits(r, d, i, j) ==
  IF i = j THEN DivBit(r, ShiftL(d, i), i)
  ELSE LET h  == (i + j + 1) \div 2
           hi == DivBits(r, d, i, h)
           lo == DivBits(hi[2], d, h - 1, j)
       IN  <<BigAdd(hi[1], lo[1]), lo[2]>>

\* <<a \div d, a % d>> for d > 0
BigDivMod(a, d) ==
  IF BigCmp(a, d) < 0 THEN <<<< >>, a>>
  ELSE DivBits(a, d, BitLen(a) - BitLen(d), 0)

Square(a) == BigMul(a, a)

RECURSIVE BigPow10(_)
BigPow10(p) ==
  IF p = 0 THEN <<1>>
  ELSE BigMulSmall(Square(BigPow10(p \div 2)), IF p % 2 = 0 THEN 1 ELSE 10)

(***************************************************************************)
(* Python float.  A finite float [k |-> "num", s, m, e] stands for         *)
(* (-1)^s * m * 2^e: a normal number has a mantissa of exactly MantBits    *)
(* bits and MinExp <= e <= MaxExp, a subnormal number has a shorter        *)
(* mantissa and e = MinExp, zero is m = << >>, e = 0 and keeps its sign.   *)
(* So equal values are equal records.  k = "inf" is the infinity of sign   *)
(* s and k = "nan" is NaN.                                                 *)
(***************************************************************************)
MantBits == 53
MinExp == -1074
MaxExp == 971

Float(s, m, e) == [k |-> "num", s |-> s, m |-> m, e |-> e]
Inf(s) == [k |-> "inf", s |-> s, m |-> << >>, e |-> 0]
NaN == [k |-> "nan", s |-> 0, m |-> << >>, e |-> 0]

\* the exponent of the last place of a float with len bits above 2^e:
\* MantBits places are kept, fewer where that would go below MinExp
\* (gradual underflow)
LastPlace(e, len) ==
  IF e + len - MantBits > MinExp THEN e + len - MantBits ELSE MinExp

\* n + f is rounded up to the next multiple of 2^sh, given q = n \div 2^sh
\* and how the dropped bits of n compare with half of 2^sh
RoundUp(q, c, sticky) == c = 1 \/ (c = 0 /\ (sticky \/ IsOdd(q)))

\* (n + f) / 2^sh, sh > 0, rounded to nearest, ties to even; q = n \div 2^sh
Rounded(n, q, sh, sticky) ==
  IF RoundUp(q, BigCmp(BigSub(n, ShiftL(q, sh)), ShiftL(<<1>>, sh - 1)), sticky)
  THEN BigAdd(q, <<1>>)
  ELSE q

\* the float (-1)^s * q * 2^e for a rounded q of at most MantBits bits, or
\* of MantBits + 1 bits when the rounding carried into a new place
Rounding(s, q, e) ==
  IF q = << >> THEN Float(s, << >>, 0)
  ELSE IF BitLen(q) > MantBits
  THEN (IF e + 1 > MaxExp THEN Inf(s) ELSE Float(s, ShiftR(q, 1), e + 1))
  ELSE IF e > MaxExp THEN Inf(s)
  ELSE Float(s, q, e)

\* Pack with the last place at 2^et
PackAt(s, n, e, sticky, et) ==
  IF et <= e
  THEN (IF et > MaxExp THEN Inf(s) ELSE Float(s, ShiftL(n, e - et), et))
  ELSE Rounding(s, Rounded(n, ShiftR(n, et - e), et - e, sticky), et)

\* (-1)^s * (n + f) * 2^e rounded to nearest, ties to even, where 0 <= f < 1
\* and sticky says f > 0; bits are dropped from n whenever sticky.  The
\* result keeps MantBits bits, or fewer where that would take the exponent
\* below MinExp, and is an infinity above MaxExp.
Pack(s, n, e, sticky) ==
  IF n = << >> THEN Float(s, << >>, 0)
  ELSE PackAt(s, n, e, sticky, LastPlace(e, BitLen(n)))

\* <<quotient, sticky>> of a division by a limb and by a longer number
StickySmall(qr) == <<qr[1], qr[2] # 0>>
StickyBig(qr)   == <<qr[1], qr[2] # << >>>>

PackQuot(s, qs, e) == Pack(s, qs[1], e, qs[2])

\* (-1)^sign * (num / den) for num = n * 10^p (den = 1) or den = 10^-p; the
\* quotient is taken with sh binary places
FloatOfRatio(sign, num, den, sh) ==
  PackQuot(sign,
           IF Len(den) = 1 THEN StickySmall(BigDivSmall(ShiftL(num, sh), den[1]))
           ELSE StickyBig(BigDivMod(ShiftL(num, sh), den)),
           -sh)

\* the float a caller passes for the decimal literal (-1)^sign * n * 10^p,
\* 0 <= n < 2^31; beyond 10^400 every literal is an infinity and below
\* 10^-400 every literal is a zero
FloatOf(sign, n, p) ==
  IF n = 0 THEN Float(sign, << >>, 0)
  ELSE IF p > 400 THEN Inf(sign)
  ELSE IF p < -400 THEN Float(sign, << >>, 0)
  ELSE IF p >= 0
  THEN FloatOfRatio(sign, BigMul(BigOfNat(n), BigPow10(p)), <<1>>, 0)
  ELSE FloatOfRatio(sign, BigOfNat(n), BigPow10(-p),
                    BitLen(BigPow10(-p)) + MantBits + LimbBits)

FZero == Float(0, << >>, 0)
FOne  == FloatOf(0, 1, 0)

IsNaN(x)    == x.k = "nan"
IsInf(x)    == x.k = "inf"
IsFinite(x) == x.k = "num"
IsZero(x)   == x.k = "num" /\ x.m = << >>
\* x < 0
IsNeg(x)    == x.s = 1 /\ (x.k = "inf" \/ (x.k = "num" /\ x.m # << >>))

FNeg(x) == IF IsNaN(x) THEN x ELSE [x EXCEPT !.s = 1 - x.s]

\* the position above the leading bit of a finite nonzero float
Lead(x) == BitLen(x.m) + x.e

\* x * y
FMul(x, y) ==
  LET s == (x.s + y.s) % 2 IN
  IF IsNaN(x) \/ IsNaN(y) THEN NaN
  ELSE IF IsInf(x) \/ IsInf(y)
  THEN (IF IsZero(x) \/ IsZero(y) THEN NaN ELSE Inf(s))
  ELSE IF IsZero(x) \/ IsZero(y) THEN Float(s, << >>, 0)
  ELSE Pack(s, BigMul(x.m, y.m), x.e + y.e, FALSE)

\* x + y for finite nonzero x and y whose mantissas at 2^e0 are a and b;
\* c compares a with b
AddAligned(x, y, a, b, e0, c) ==
  Pack(IF x.s = y.s \/ c = 1 THEN x.s ELSE IF c = -1 THEN y.s ELSE 0,
       IF x.s = y.s THEN BigAdd(a, b)
       ELSE IF c = 1 THEN BigSub(a, b)
       ELSE IF c = -1 THEN BigSub(b, a)
       ELSE << >>,
       e0, FALSE)

AddAt(x, y, a, b, e0) == AddAligned(x, y, a, b, e0, BigCmp(a, b))

AddFinite(x, y, e0) ==
  AddAt(x, y, ShiftL(x.m, x.e - e0), ShiftL(y.m, y.e - e0), e0)

\* x + y; a term more than MantBits + 3 binary places below the other one
\* is less than an eighth of its last place and leaves it unchanged
FAdd(x, y) ==
  IF IsNaN(x) \/ IsNaN(y) THEN NaN
  ELSE IF IsInf(x) /\ IsInf(y) THEN (IF x.s = y.s THEN x ELSE NaN)
  ELSE IF IsInf(x) THEN x
  ELSE IF IsInf(y) THEN y
  ELSE IF IsZero(x) /\ IsZero(y) THEN Float(IF x.s = 1 /\ y.s = 1 THEN 1 ELSE 0, << >>, 0)
  ELSE IF IsZero(x) THEN y
  ELSE IF IsZero(y) THEN x
  ELSE IF Lead(x) - Lead(y) > MantBits + 3 THEN x
  ELSE IF Lead(y) - Lead(x) > MantBits + 3 THEN y
  ELSE AddFinite(x, y, IF x.e < y.e THEN x.e ELSE y.e)

\* x - y
FSub(x, y) == FAdd(x, FNeg(y))

\* x / d for the float d whose value is the integer d, 0 < d < Base
FDiv(x, d) ==
  IF IsNaN(x) \/ IsInf(x) \/ IsZero(x) THEN x
  ELSE PackQuot(x.s, StickySmall(BigDivSmall(ShiftL(x.m, 2 * LimbBits), d)),
                x.e - 2 * LimbBits)

AlignedCmp(x, y, e0) == BigCmp(ShiftL(x.m, x.e - e0), ShiftL(y.m, y.e - e0))

\* -1, 0, 1 as |x| < |y|, |x| = |y|, |x| > |y|, for x and y other than NaN
MagCmp(x, y) ==
  IF IsInf(x) \/ IsInf(y)
  THEN (IF IsInf(x) /\ IsInf(y) THEN 0 ELSE IF IsInf(x) THEN 1 ELSE -1)
  ELSE IF IsZero(x) \/ IsZero(y)
  THEN (IF IsZero(x) /\ IsZero(y) THEN 0 ELSE IF IsZero(x) THEN -1 ELSE 1)
  ELSE IF Lead(x) # Lead(y) THEN (IF Lead(x) < Lead(y) THEN -1 ELSE 1)
  ELSE AlignedCmp(x, y, IF x.e < y.e THEN x.e ELSE y.e)

\* x < y
FLess(x, y) ==
  IF IsNaN(x) \/ IsNaN(y) THEN FALSE
  ELSE IF IsNeg(x) /\ ~IsNeg(y) THEN TRUE
  ELSE IF ~IsNeg(x) /\ IsNeg(y) THEN FALSE
  ELSE MagCmp(x, y) = (IF IsNeg(x) THEN 1 ELSE -1)

\* max(x, y) of Python: the first argument unless the second is greater
FMax(x, y) == IF FLess(x, y) THEN y ELSE x

RoundedShift(n, sh) == Rounded(n, ShiftR(n, sh), sh, FALSE)

\* |x| * 10^nd rounded to an integer, ties to even, for -62 <= x.e < 0
ScaledInt(x, nd) == RoundedShift(BigMul(x.m, BigPow10(nd)), -x.e)

\* round(x, nd), nd >= 1: the float nearest to the decimal with nd places
\* nearest to x.  NaN and the infinities round to themselves, a float with
\* x.e >= 0 is an integer and rounds to itself, and a float below
\* 2^-(4 nd + 1) < 10^-nd / 2 rounds to zero.
FRound(x, nd) ==
  IF IsNaN(x) \/ IsInf(x) \/ IsZero(x) THEN x
  ELSE IF x.e >= 0 THEN x
  ELSE IF Lead(x) <= -(4 * nd + 1) THEN Float(x.s, << >>, 0)
  ELSE PackQuot(x.s,
                StickySmall(BigDivSmall(ShiftL(ScaledInt(x, nd), 5 * LimbBits), 10 ^ nd)),
                -(5 * LimbBits))

(***************************************************************************)
(* Arguments.  A caller passes thirteen numbers, each a float or an int;   *)
(* the model writes each as the literal (-1)^s * n * 10^p, and F gives the *)
(* Python value the literal denotes.                                       *)
(***************************************************************************)
\* the float literal k * 10^p
D(k, p) ==
  [s |-> IF k < 0 THEN 1 ELSE 0, n |-> IF k < 0 THEN -k ELSE k, p |-> p,
   int |-> FALSE]

\* the int k * 10^p, p >= 0
I(k, p) == [D(k, p) EXCEPT !.int = TRUE]

Args(lb, nb, g, i, h, l, x, c, n, ca, ec, r, t) ==
  [gwp_life_base |-> lb, gwp_non_life_base |-> nb, gdp |-> g, inflation |-> i,
   hist_trend |-> h, loss_ratio |-> l, expense_ratio |-> x, churn |-> c,
   new_business |-> n, cat_impact |-> ca, econ_downturn |-> ec,
   reg_impact |-> r, tech_impact |-> t]

\* the values the sidebar widgets start with
Defaults ==
  Args(D(100, 0), D(200, 0), D(3, 0), D(2, 0), D(2, 0), D(60, 0), D(10, 0),
       D(10, 0), D(5, 0), D(5, 0), D(3, 0), D(1, 0), D(2, 0))

ParamNames ==
  {"gdp", "inflation", "hist_trend", "loss_ratio", "expense_ratio", "churn",
   "new_business", "cat_impact", "econ_downturn", "reg_impact", "tech_impact"}

(***************************************************************************)
(* The arguments the model calls the function with: a base vector with at  *)
(* most MaxVaried arguments replaced by one of their alternatives.  The    *)
(* alternatives reach outside the ranges of the sidebar widgets: negative  *)
(* baselines, ratios above 100 %, impacts below -100 %, a subnormal        *)
(* baseline, a baseline and two ratios large enough for a product to       *)
(* overflow, the float literal 1e309 (an infinity), an int, and two ints   *)
(* above the largest float.                                                *)
(***************************************************************************)
MaxVaried == 2
MaxCalls == 3

\* every percentage 0
Neutral ==
  Args(D(100, 0), D(200, 0), D(0, 0), D(0, 0), D(0, 0), D(0, 0), D(0, 0),
       D(0, 0), D(0, 0), D(0, 0), D(0, 0), D(0, 0), D(0, 0))

\* both baselines 0
ZeroLines == [[Defaults EXCEPT !.gwp_life_base = D(0, 0)] EXCEPT !.gwp_non_life_base = D(0, 0)]

Bases == {Defaults, Neutral, ZeroLines}

Alternatives ==
  [gwp_life_base     |-> {D(0, 0), D(-50, 0), D(1003, -3), D(1, -320)},
   gwp_non_life_base |-> {D(0, 0), D(1, 308), I(1, 309)},
   gdp               |-> {D(100, 0), D(-150, 0), I(1, 309)},
   inflation         |-> {D(15, 0), D(1, 309)},
   hist_trend        |-> {D(-250, 0)},
   loss_ratio        |-> {D(150, 0), D(-1, 200)},
   expense_ratio     |-> {D(120, 0), D(-1, 200)},
   churn             |-> {D(130, 0)},
   new_business      |-> {I(50, 0)},
   cat_impact        |-> {D(140, 0)},
   econ_downturn     |-> {D(-40, 0)},
   reg_impact        |-> {D(-150, 0), D(105, -1)},
   tech_impact       |-> {D(-200, 0)}]

ArgNames == DOMAIN Alternatives

\* every vector of S, and every vector of S with one argument replaced
VaryOne(S) ==
  S \cup UNION {{[ak[1] EXCEPT ![ak[2]] = v] : v \in Alternatives[ak[2]]} :
                ak \in S \X ArgNames}

RECURSIVE Varied(_)
Varied(n) == IF n = 0 THEN Bases ELSE VaryOne(Varied(n - 1))

Inputs == Varied(MaxVaried)

WithLines(b, lb, nb) ==
  [[b EXCEPT !.gwp_life_base = lb] EXCEPT !.gwp_non_life_base = nb]

\* the arguments of the repeated calls: two parameter vectors, each baseline
\* 100 or 200
CallInputs ==
  {WithLines(b, lb, nb) :
     b \in {Defaults, [Neutral EXCEPT !.gdp = D(100, 0)]},
     lb \in {D(100, 0), D(200, 0)},
     nb \in {D(100, 0), D(200, 0)}}

\* the arguments of the scenario runs: catastrophe and downturn impacts
\* around a sum of 100, baselines up to 10^18
ScenarioInputs ==
  {[[WithLines(b, lb, lb) EXCEPT !.cat_impact = ca] EXCEPT !.econ_downturn = ec] :
     b \in {Defaults, Neutral},
     lb \in {D(100, 0), D(1, 18)},
     ca \in {D(0, 0), D(5, 0), D(50, 0), D(77, -1), D(100, 0), D(117, 0), D(140, 0)},
     ec \in {D(0, 0), D(3, 0), D(50, 0), D(923, -1), D(100, 0), D(-17, 0), D(-40, 0)}}

\* an int above the largest float: it has no float value, and float
\* arithmetic on it raises OverflowError
LargeInt(s) == [k |-> "int", s |-> s, m |-> << >>, e |-> 0]

IsLargeInt(x) == x.k = "int"

\* the operand an int literal gives to float arithmetic: its nearest float,
\* unless that is beyond the largest float
IntOperand(s, x) == IF IsInf(x) THEN LargeInt(s) ELSE x

ValueOf(d) ==
  IF d.int THEN IntOperand(d.s, FloatOf(d.s, d.n, d.p)) ELSE FloatOf(d.s, d.n, d.p)

\* the literals of the input sets are converted once
Literals ==
  UNION {{a[k] : k \in ArgNames} : a \in Inputs \cup CallInputs \cup ScenarioInputs}

ValueTable == [d \in Literals |-> ValueOf(d)]

\* the value a caller passes for the literal d
F(d) == IF d \in Literals THEN ValueTable[d] ELSE ValueOf(d)

VARIABLES
  pc,                    \* "idle", "loop" (inside the for statement), "done",
                         \* "raised" (the call ended with an exception)
  args,                  \* the arguments of the call in progress
  year,                  \* the loop variable
  gwp_life_current,
  gwp_non_life_current,
  final_gwp_life,        \* the unrounded value of the last iteration
  final_gwp_non_life,
  results,               \* the list of records
  calls                  \* log of the finished calls: <<arguments, returned records>>

vars == <<pc, args, year, gwp_life_current, gwp_non_life_current,
          final_gwp_life, final_gwp_non_life, results, calls>>

Hundred == 100
FirstYear == 1
\* range(1, 5): the last year is dropped
StopYearShort == 6 - 1
StopYear == 6
Digits == 2

\* Convert percentages to decimal multipliers
gdp_dec           == FDiv(F(args.gdp), Hundred)
inflation_dec     == FDiv(F(args.inflation), Hundred)
hist_trend_dec    == FDiv(F(args.hist_trend), Hundred)
loss_ratio_dec    == FDiv(F(args.loss_ratio), Hundred)
expense_ratio_dec == FDiv(F(args.expense_ratio), Hundred)
churn_dec         == FDiv(F(args.churn), Hundred)
new_business_dec  == FDiv(F(args.new_business), Hundred)
cat_impact_dec    == FDiv(F(args.cat_impact), Hundred)
econ_downturn_dec == FDiv(F(args.econ_downturn), Hundred)
reg_impact_dec    == FDiv(F(args.reg_impact), Hundred)
tech_impact_dec   == FDiv(F(args.tech_impact), Hundred)

\* Step 1: Base Growth Model
\* GDP and inflation compounded instead of added
growth_factor_compounded == FMul(FAdd(FOne, gdp_dec), FAdd(FOne, inflation_dec))
growth_factor == FAdd(FAdd(FOne, gdp_dec), inflation_dec)
trend_factor  == FAdd(FOne, hist_trend_dec)
base_life     == FMul(FMul(gwp_life_current, growth_factor), trend_factor)
\* the Life line pasted into the Non-Life line
base_non_life_pasted == FMul(FMul(gwp_life_current, growth_factor), trend_factor)
base_non_life == FMul(FMul(gwp_non_life_current, growth_factor), trend_factor)

\* Step 2: Attritional Loss + Expense Adjustments
loss_adjustment_factor     == FSub(FOne, loss_ratio_dec)
expense_adjustment_factor  == FSub(FOne, expense_ratio_dec)
combined_adjustment_factor == FMul(loss_adjustment_factor, expense_adjustment_factor)
adj_base_life     == FMul(base_life, combined_adjustment_factor)
adj_base_non_life == FMul(base_non_life, combined_adjustment_factor)

\* Step 3: Customer Churn & New Business
retention_rate    == FSub(FOne, churn_dec)
\* retention multiplied by new business instead of added to it
net_growth_factor_product == FMul(retention_rate, new_business_dec)
net_growth_factor == FAdd(retention_rate, new_business_dec)
\* new business added as an amount instead of a rate
adj_life_churn_added == FAdd(FMul(adj_base_life, retention_rate), new_business_dec)
adj_life_churn     == FMul(adj_base_life, net_growth_factor)
adj_non_life_churn == FMul(adj_base_non_life, net_growth_factor)

\* Step 4: Scenario-Based Adjustments
raw_scenario_factor == FSub(FOne, FAdd(cat_impact_dec, econ_downturn_dec))
\* the cap at 0.0 left out
scenario_impact_factor_unclamped == raw_scenario_factor
scenario_impact_factor_life     == FMax(raw_scenario_factor, FZero)
scenario_impact_factor_non_life == FMax(raw_scenario_factor, FZero)
life_after_scenario     == FMul(adj_life_churn, scenario_impact_factor_life)
non_life_after_scenario == FMul(adj_non_life_churn, scenario_impact_factor_non_life)

\* Step 5: Regulatory & Technological Adjustments
reg_factor  == FAdd(FOne, reg_impact_dec)
tech_factor == FAdd(FOne, tech_impact_dec)
reg_tech_multiplier  == FMul(reg_factor, tech_factor)
final_gwp_life_value     == FMul(life_after_scenario, reg_tech_multiplier)
final_gwp_non_life_value == FMul(non_life_after_scenario, reg_tech_multiplier)

\* Step 6: the value carried into the next iteration, and the record
\* the rounded value carried forward
carry_rounded(final) == FRound(final, Digits)
carry(final) == final

YearLabel(y) == "t+" \o ToString(y)

Record(y, life, non_life) ==
  [Year |-> YearLabel(y),
   GWP_Life |-> FRound(life, Digits),
   GWP_NonLife |-> FRound(non_life, Digits)]

\* the list is not emptied: records of earlier calls stay in it
NewResultsKept(old) == old

\* results = []
NewResults(old) == << >>

Init ==
  /\ pc = "idle"
  /\ args = Defaults
  /\ year = 0
  /\ gwp_life_current = FZero
  /\ gwp_non_life_current = FZero
  /\ final_gwp_life = FZero
  /\ final_gwp_non_life = FZero
  /\ results = << >>
  /\ calls = << >>

\* a range check: a negative baseline or a ratio above 100 % is rejected
InvalidParameterChecked(a) ==
  \/ a.gwp_life_base.s = 1 \/ a.gwp_non_life_base.s = 1
  \/ (a.loss_ratio.p = 0 /\ a.loss_ratio.n > 100)

\* the function checks none of its arguments: none is rejected
InvalidParameter(a) == FALSE

\* x / 100.0 of lines 135-145 raises OverflowError for an int x above the
\* largest float
ConversionOverflows(a) == \E k \in ParamNames : IsLargeInt(F(a[k]))

\* x * growth_factor of lines 158-159 raises OverflowError for an int x
\* above the largest float
ProductOverflows == IsLargeInt(gwp_life_current) \/ IsLargeInt(gwp_non_life_current)

\* the function is entered with arguments a: lines 135-154
Enter(a) ==
  /\ args' = a
  /\ IF InvalidParameter(a) \/ ConversionOverflows(a)
     THEN /\ pc' = "raised"
          /\ UNCHANGED <<year, gwp_life_current, gwp_non_life_current, results>>
     ELSE /\ results' = NewResults(results)
          /\ gwp_life_current' = F(a.gwp_life_base)
          /\ gwp_non_life_current' = F(a.gwp_non_life_base)
          /\ year' = FirstYear
          /\ pc' = "loop"
  /\ UNCHANGED <<final_gwp_life, final_gwp_non_life, calls>>

Call(S) == pc = "idle" /\ \E a \in S : Enter(a)

CallAgain(S) == pc = "done" /\ Len(calls) < MaxCalls /\ \E a \in S : Enter(a)

\* one pass of the loop body: lines 154-220
Iterate ==
  /\ pc = "loop"
  /\ year < StopYear
  /\ IF ProductOverflows
     THEN /\ pc' = "raised"
          /\ UNCHANGED <<year, gwp_life_current, gwp_non_life_current,
                         final_gwp_life, final_gwp_non_life, results>>
     ELSE /\ final_gwp_life' = final_gwp_life_value
          /\ final_gwp_non_life' = final_gwp_non_life_value
          /\ gwp_life_current' = carry(final_gwp_life')
          /\ gwp_non_life_current' = carry(final_gwp_non_life')
          /\ results' = Append(results, Record(year, final_gwp_life', final_gwp_non_life'))
          /\ year' = year + 1
          /\ pc' = pc
  /\ UNCHANGED <<args, calls>>

\* the loop is exhausted and the records are returned: line 222
Return ==
  /\ pc = "loop"
  /\ year >= StopYear
  /\ pc' = "done"
  /\ calls' = Append(calls, <<args, results>>)
  /\ UNCHANGED <<args, year, gwp_life_current, gwp_non_life_current,
                 final_gwp_life, final_gwp_non_life, results>>

\* one call, any arguments of Inputs
Next == Call(Inputs) \/ Iterate \/ Return

Spec == Init /\ [][Next]_vars

\* up to MaxCalls calls, one after the other
NextCalls == Call(CallInputs) \/ CallAgain(CallInputs) \/ Iterate \/ Return

SpecCalls == Init /\ [][NextCalls]_vars

\* one call, the scenario arguments
NextScenario == Call(ScenarioInputs) \/ Iterate \/ Return

SpecScenario == Init /\ [][NextScenario]_vars

(***************************************************************************)
(* The claims.  The formulas below restate the specification from the      *)
(* arguments alone: Pct, the multipliers and YearProduct are written out   *)
(* here and use none of the definitions of the loop body above.            *)
(***************************************************************************)
Pct(d) == FDiv(F(d), 100)

GrowthMultiplier    == FAdd(FAdd(FOne, Pct(args.gdp)), Pct(args.inflation))
TrendMultiplier     == FAdd(FOne, Pct(args.hist_trend))
LossMultiplier      == FSub(FOne, Pct(args.loss_ratio))
ExpenseMultiplier   == FSub(FOne, Pct(args.expense_ratio))
NetGrowthMultiplier == FAdd(FSub(FOne, Pct(args.churn)), Pct(args.new_business))
ScenarioMultiplier  ==
  FMax(FSub(FOne, FAdd(Pct(args.cat_impact), Pct(args.econ_downturn))), FZero)
RegMultiplier       == FAdd(FOne, Pct(args.reg_impact))
TechMultiplier      == FAdd(FOne, Pct(args.tech_impact))

\* v times the eight multipliers, the products taken in the order of lines
\* 158-206
YearProduct(v) ==
  FMul(FMul(FMul(FMul(FMul(FMul(v, GrowthMultiplier), TrendMultiplier),
                      FMul(LossMultiplier, ExpenseMultiplier)),
                 NetGrowthMultiplier),
            ScenarioMultiplier),
       FMul(RegMultiplier, TechMultiplier))

YearLabels == <<"t+1", "t+2", "t+3", "t+4", "t+5">>

Running == pc \in {"loop", "done"}

\* a step of the loop body
IterateStep == pc = "loop" /\ year' = year + 1

\* ten times the decimal d, for d with at most one decimal place
Tenths(d) == (IF d.s = 1 THEN -1 ELSE 1) * d.n * 10 ^ (d.p + 1)

ScenarioSum == Tenths(args.cat_impact) + Tenths(args.econ_downturn)

LifeSeries(r)    == [j \in 1..Len(r) |-> r[j].GWP_Life]
NonLifeSeries(r) == [j \in 1..Len(r) |-> r[j].GWP_NonLife]
Params(a)        == [k \in ParamNames |-> a[k]]

\* C1: a call returns exactly 5 records, and the record at position j is
\* labelled "t+j": the records built so far are labelled t+1, t+2, ... in
\* order, and the returned list (also every list in the log) has 5 of them.
C1_FiveRecordsInOrder ==
  /\ Len(results) <= 5
  /\ \A j \in 1..Len(results) : results[j].Year = YearLabels[j]
  /\ pc = "loop" => Len(results) = year - 1
  /\ pc = "done" => Len(results) = 5
  /\ \A i \in 1..Len(calls) : Len(calls[i][2]) = 5

C1_Witness ==
  /\ pc = "done"
  /\ Len(results) = 5
  /\ results[5].Year = "t+5"
  /\ Len(calls) = 1

\* C2: in every pass j of the loop the unrounded value of each line is the
\* value fed into the pass (the baseline when j = 1) times
\* (1 + gdp% + inflation%) (1 + trend%) (1 - loss%) (1 - expense%)
\* ((1 - churn%) + new%) max(0, 1 - (cat% + econ%)) (1 + reg%) (1 + tech%),
\* the record holds that value rounded to 2 decimals, and with the default
\* arguments the Life value of year 1 is 34.72.
C2_YearFormula ==
  [][IterateStep =>
       /\ year = 1 => /\ gwp_life_current = F(args.gwp_life_base)
                      /\ gwp_non_life_current = F(args.gwp_non_life_base)
       /\ final_gwp_life' = YearProduct(gwp_life_current)
       /\ final_gwp_non_life' = YearProduct(gwp_non_life_current)
       /\ results'[year].GWP_Life = FRound(final_gwp_life', 2)
       /\ results'[year].GWP_NonLife = FRound(final_gwp_non_life', 2)
       /\ (args = Defaults /\ year = 1) => results'[1].GWP_Life = F(D(3472, -2))
    ]_vars

C2_Witness ==
  /\ args = Defaults
  /\ pc = "loop"
  /\ Len(results) = 1
  /\ results[1].GWP_Life = F(D(3472, -2))
  /\ final_gwp_life # results[1].GWP_Life

\* C3: the value carried into the next pass is the unrounded final value of
\* this pass; from the second pass on the value fed in is the unrounded value
\* of the pass before, and the record is the rounding of the product of that
\* unrounded value.
C3_CarryUnrounded ==
  [][IterateStep =>
       /\ gwp_life_current' = final_gwp_life'
       /\ gwp_non_life_current' = final_gwp_non_life'
       /\ year >= 2 =>
            /\ gwp_life_current = final_gwp_life
            /\ gwp_non_life_current = final_gwp_non_life
            /\ results'[year].GWP_Life = FRound(YearProduct(final_gwp_life), 2)
            /\ results'[year].GWP_NonLife = FRound(YearProduct(final_gwp_non_life), 2)
    ]_vars

\* the record of year 2 is not what the rounded record of year 1 would give
C3_Witness ==
  /\ Running
  /\ Len(results) >= 2
  /\ results[1].GWP_Life # YearProduct(F(args.gwp_life_base))
  /\ results[2].GWP_Life # FRound(YearProduct(results[1].GWP_Life), 2)

\* C4 as claimed: whenever cat_impact + econ_downturn >= 100, every record
\* of every year holds 0 for both lines.
C4_ScenarioFloor ==
  ScenarioSum >= 1000 =>
    \A j \in 1..Len(results) :
      IsZero(results[j].GWP_Life) /\ IsZero(results[j].GWP_NonLife)

\* C5 as claimed: with both baselines 0 every value of every year is 0,
\* rounded and unrounded, whatever the percentages are.
C5_ZeroBaseline ==
  (Running /\ args.gwp_life_base.n = 0 /\ args.gwp_non_life_base.n = 0) =>
    /\ IsZero(gwp_life_current) /\ IsZero(gwp_non_life_current)
    /\ \A j \in 1..Len(results) :
         IsZero(results[j].GWP_Life) /\ IsZero(results[j].GWP_NonLife)

\* each of the eight multipliers and each of the two products of
\* multipliers (lines 171 and 205) is a finite number
MultipliersFinite ==
  /\ IsFinite(GrowthMultiplier) /\ IsFinite(TrendMultiplier)
  /\ IsFinite(LossMultiplier) /\ IsFinite(ExpenseMultiplier)
  /\ IsFinite(FMul(LossMultiplier, ExpenseMultiplier))
  /\ IsFinite(NetGrowthMultiplier) /\ IsFinite(ScenarioMultiplier)
  /\ IsFinite(RegMultiplier) /\ IsFinite(TechMultiplier)
  /\ IsFinite(FMul(RegMultiplier, TechMultiplier))

\* C5, amended: with both baselines 0 every value of every year is 0, rounded
\* and unrounded, for all percentages for which every multiplier and the
\* products (1 - loss%) (1 - expense%) and (1 + reg%) (1 + tech%) are finite,
\* and the call returns 5 such records; where a multiplier or one of the two
\* products is an infinity (0 * inf is NaN), every value is NaN instead.
C5_ZeroBaselineFinite ==
  (Running /\ args.gwp_life_base.n = 0 /\ args.gwp_non_life_base.n = 0) =>
    /\ MultipliersFinite =>
         /\ IsZero(gwp_life_current) /\ IsZero(gwp_non_life_current)
         /\ \A j \in 1..Len(results) :
              IsZero(results[j].GWP_Life) /\ IsZero(results[j].GWP_NonLife)
    /\ ~MultipliersFinite =>
         /\ year > 1 => IsNaN(gwp_life_current) /\ IsNaN(gwp_non_life_current)
         /\ \A j \in 1..Len(results) :
              IsNaN(results[j].GWP_Life) /\ IsNaN(results[j].GWP_NonLife)
    /\ pc = "done" => Len(results) = 5

\* zero baselines, a negative and a huge multiplier, all five records 0
C5_Witness ==
  /\ pc = "done"
  /\ args.gwp_life_base.n = 0 /\ args.gwp_non_life_base.n = 0
  /\ args.reg_impact = D(-150, 0)
  /\ args.loss_ratio = D(-1, 200)
  /\ MultipliersFinite
  /\ Len(results) = 5
  /\ IsZero(results[5].GWP_Life)

AllPercentagesZero == \A k \in ParamNames : args[k].n = 0

\* C6: with all eleven percentages 0 every multiplier is 1, the unrounded
\* value of every year is the baseline itself and every record holds the
\* baseline rounded to 2 decimals.
C6_NeutralParameters ==
  (Running /\ AllPercentagesZero) =>
    /\ growth_factor = FOne /\ trend_factor = FOne
    /\ combined_adjustment_factor = FOne /\ net_growth_factor = FOne
    /\ scenario_impact_factor_life = FOne /\ scenario_impact_factor_non_life = FOne
    /\ reg_tech_multiplier = FOne
    /\ gwp_life_current = F(args.gwp_life_base)
    /\ gwp_non_life_current = F(args.gwp_non_life_base)
    /\ \A j \in 1..Len(results) :
         /\ results[j].GWP_Life = FRound(F(args.gwp_life_base), 2)
         /\ results[j].GWP_NonLife = FRound(F(args.gwp_non_life_base), 2)

\* baseline 1.003: the records hold 1.0, the carried value stays 1.003
C6_Witness ==
  /\ pc = "done"
  /\ AllPercentagesZero
  /\ args.gwp_life_base = D(1003, -3)
  /\ Len(results) = 5
  /\ results[5].GWP_Life = F(D(1, 0))
  /\ gwp_life_current = F(D(1003, -3))

\* C7: two finished calls with the same thirteen arguments returned the
\* same records, wherever they stand in the sequence of calls.
C7_Deterministic ==
  \A i \in 1..Len(calls) : \A j \in 1..Len(calls) :
    calls[i][1] = calls[j][1] => calls[i][2] = calls[j][2]

\* the same arguments twice, with a call with other arguments in between
C7_Witness ==
  /\ Len(calls) = 3
  /\ calls[1][1] = calls[3][1]
  /\ calls[2][1] # calls[1][1]
  /\ calls[2][2] # calls[1][2]

\* a value of the type float: a zero, a normal or a subnormal number, an
\* infinity or NaN
IsFloat(x) ==
  /\ x.s \in {0, 1}
  /\ \/ IsNaN(x) \/ IsInf(x) \/ IsZero(x)
     \/ (IsFinite(x) /\ BitLen(x.m) = MantBits /\ x.e >= MinExp /\ x.e <= MaxExp)
     \/ (IsFinite(x) /\ BitLen(x.m) \in 1..(MantBits - 1) /\ x.e = MinExp)

\* C8 as claimed: no call raises, whatever the numbers passed are; the loop
\* variable stays in 1..6, the call returns after exactly 5 passes with 5
\* records, and every value it computes or records is a number.
C8_NeverFails ==
  /\ pc # "raised"
  /\ pc = "loop" => year \in 1..6 /\ Len(results) = year - 1
  /\ pc = "done" => year = 6 /\ Len(results) = 5
  /\ IsFloat(gwp_life_current) /\ ~IsNaN(gwp_life_current)
  /\ IsFloat(gwp_non_life_current) /\ ~IsNaN(gwp_non_life_current)
  /\ \A j \in 1..Len(results) :
       /\ IsFloat(results[j].GWP_Life) /\ ~IsNaN(results[j].GWP_Life)
       /\ IsFloat(results[j].GWP_NonLife) /\ ~IsNaN(results[j].GWP_NonLife)

\* the arguments that are ints above the largest float
LargeIntArgs == {k \in ArgNames : IsLargeInt(F(args[k]))}

\* C8, amended: no argument is rejected for its value, and a call whose
\* arguments are floats, or ints a float can hold, does not raise: the loop
\* variable stays in 1..6, the call returns after exactly 5 passes with 5
\* records, and every value it computes or records is a float: zero,
\* negative and subnormal values included, and an infinity or NaN after an
\* overflow.  A call raises only when an argument is an int above the
\* largest float, and such a call raises before its first record.
C8_FailsOnlyOnLargeInt ==
  /\ LargeIntArgs = {} =>
       /\ pc # "raised"
       /\ pc = "loop" => year \in 1..6 /\ Len(results) = year - 1
       /\ pc = "done" => year = 6 /\ Len(results) = 5
       /\ IsFloat(gwp_life_current) /\ IsFloat(gwp_non_life_current)
       /\ \A j \in 1..Len(results) :
            IsFloat(results[j].GWP_Life) /\ IsFloat(results[j].GWP_NonLife)
  /\ LargeIntArgs # {} =>
       /\ pc \in {"loop", "raised"}
       /\ pc = "loop" => year = 1 /\ LargeIntArgs \cap ParamNames = {}
       /\ results = << >>

\* a negative baseline with cat_impact + econ_downturn above 100
C8_Witness ==
  /\ pc = "done"
  /\ args.gwp_life_base = D(-50, 0)
  /\ ScenarioSum > 1000
  /\ Len(results) = 5

MultipliersNonNegative ==
  /\ ~IsNeg(GrowthMultiplier) /\ ~IsNeg(TrendMultiplier)
  /\ ~IsNeg(LossMultiplier) /\ ~IsNeg(ExpenseMultiplier)
  /\ ~IsNeg(NetGrowthMultiplier)
  /\ ~IsNeg(RegMultiplier) /\ ~IsNeg(TechMultiplier)

\* x >= 0
IsNonNeg(x) == ~IsNaN(x) /\ ~IsNeg(x)

\* C9 as claimed: the scenario multiplier of either line is never negative,
\* and with non-negative baselines and the seven other multipliers >= 0
\* every value of every year, rounded or unrounded, is >= 0.
C9_NonNegative ==
  Running =>
    /\ IsNonNeg(scenario_impact_factor_life)
    /\ IsNonNeg(scenario_impact_factor_non_life)
    /\ (args.gwp_life_base.s = 0 /\ args.gwp_non_life_base.s = 0
        /\ MultipliersNonNegative) =>
         /\ IsNonNeg(gwp_life_current) /\ IsNonNeg(gwp_non_life_current)
         /\ \A j \in 1..Len(results) :
              IsNonNeg(results[j].GWP_Life) /\ IsNonNeg(results[j].GWP_NonLife)

\* C9, the part of the claim that holds: the scenario multiplier of either
\* line is never negative, and with non-negative baselines and the seven
\* other multipliers >= 0 no value of any year, rounded or unrounded, is
\* negative.
C9_NeverNegative ==
  Running =>
    /\ ~IsNeg(scenario_impact_factor_life)
    /\ ~IsNeg(scenario_impact_factor_non_life)
    /\ (args.gwp_life_base.s = 0 /\ args.gwp_non_life_base.s = 0
        /\ MultipliersNonNegative) =>
         /\ ~IsNeg(gwp_life_current) /\ ~IsNeg(gwp_non_life_current)
         /\ \A j \in 1..Len(results) :
              ~IsNeg(results[j].GWP_Life) /\ ~IsNeg(results[j].GWP_NonLife)

\* in the pass that starts from v every multiplier is finite, and so is
\* every partial product before the last one, taken in the order of lines
\* 158-198
NoOverflow(v) ==
  LET grown    == FMul(v, GrowthMultiplier)
      base     == FMul(grown, TrendMultiplier)
      adjusted == FMul(base, FMul(LossMultiplier, ExpenseMultiplier))
      churned  == FMul(adjusted, NetGrowthMultiplier)
      scenario == FMul(churned, ScenarioMultiplier)
  IN  /\ MultipliersFinite
      /\ IsFinite(grown) /\ IsFinite(base) /\ IsFinite(adjusted)
      /\ IsFinite(churned) /\ IsFinite(scenario)

\* C9, amended: the scenario multiplier of either line is >= 0 in every
\* pass, and with non-negative baselines and the seven other multipliers
\* >= 0 no value of any year, rounded or unrounded, is negative; a value is
\* >= 0 whenever the value fed into its pass is >= 0 and no multiplier or
\* product of the pass is an infinity.  (An infinity times a zero is NaN,
\* which is neither negative nor >= 0.)
C9_NonNegativeUnlessOverflow ==
  /\ []C9_NeverNegative
  /\ [][IterateStep =>
          /\ IsNonNeg(scenario_impact_factor_life)
          /\ IsNonNeg(scenario_impact_factor_non_life)
          /\ (args.gwp_life_base.s = 0 /\ args.gwp_non_life_base.s = 0
              /\ MultipliersNonNegative) =>
               /\ (IsNonNeg(gwp_life_current) /\ NoOverflow(gwp_life_current)) =>
                    /\ IsNonNeg(final_gwp_life')
                    /\ IsNonNeg(gwp_life_current')
                    /\ IsNonNeg(results'[year].GWP_Life)
               /\ (IsNonNeg(gwp_non_life_current) /\ NoOverflow(gwp_non_life_current)) =>
                    /\ IsNonNeg(final_gwp_non_life')
                    /\ IsNonNeg(gwp_non_life_current')
                    /\ IsNonNeg(results'[year].GWP_NonLife)
       ]_vars

\* positive baselines, every multiplier >= 0, the scenario sum above 100
C9_Witness ==
  /\ pc = "done"
  /\ args.gwp_life_base = D(100, 0) /\ args.gwp_non_life_base = D(200, 0)
  /\ MultipliersNonNegative
  /\ ScenarioSum > 1000
  /\ IsZero(results[1].GWP_Life)

\* C10: among the finished calls with the same eleven percentages, the Life
\* series is decided by the Life baseline alone and the Non-Life series by
\* the Non-Life baseline alone, and a Life baseline equal to a Non-Life
\* baseline (of the same call or of another) gives the same series: equal
\* baselines give equal series and swapped baselines swap the series.
C10_LinesIndependent ==
  \A i \in 1..Len(calls) : \A j \in 1..Len(calls) :
    LET a == calls[i][1]
        b == calls[j][1]
    IN  Params(a) = Params(b) =>
          /\ a.gwp_life_base = b.gwp_life_base =>
               LifeSeries(calls[i][2]) = LifeSeries(calls[j][2])
          /\ a.gwp_non_life_base = b.gwp_non_life_base =>
               NonLifeSeries(calls[i][2]) = NonLifeSeries(calls[j][2])
          /\ a.gwp_life_base = b.gwp_non_life_base =>
               LifeSeries(calls[i][2]) = NonLifeSeries(calls[j][2])

\* the same percentages with the baselines swapped, and the two series differ
C10_Witness ==
  /\ Len(calls) >= 2
  /\ Params(calls[1][1]) = Params(calls[2][1])
  /\ calls[1][1].gwp_life_base = calls[2][1].gwp_non_life_base
  /\ calls[1][1].gwp_non_life_base = calls[2][1].gwp_life_base
  /\ calls[1][1].gwp_life_base # calls[1][1].gwp_non_life_base
  /\ LifeSeries(calls[1][2]) # NonLifeSeries(calls[1][2])
  /\ LifeSeries(calls[1][2]) = NonLifeSeries(calls[2][2])

=============================================================================
